---- MODULE Spec2Model ----
(***************************************************************************)
(* View Tours: the discovery workflow of the App components.               *)
(*                                                                         *)
(* The repository holds several variants of one React component.  Each     *)
(* variant is modelled as a specification of its own over the same         *)
(* variables:                                                              *)
(*   V1  src/unnamed/part_000 lines 1-406    camera, re-verify, podcast    *)
(*   V5  src/App.tsx lines 277-629           camera, text search, nearby   *)
(*                                           landmarks, narration          *)
(* V5 is run as two specifications, its discovery handlers (Spec_V5) and   *)
(* its narration (Spec_Narration); the rendering of the nearby cards, a    *)
(* function of the list and the title, is run on its own (Spec_Filter).    *)
(* A handler runs to its first await as one step; the code after an await  *)
(* (the continuation of a backend call or of getUserMedia) is a step of    *)
(* its own.  A handler is enabled exactly when the control that invokes    *)
(* it is rendered.                                                         *)
(***************************************************************************)
EXTENDS Integers, Sequences, FiniteSets, TLC

VARIABLES
    image,                  \* useState image: a data URL, or null
    isScanning,             \* useState isScanning
    loading,                \* useState loading
    podcastLoading,         \* useState podcastLoading
    result,                 \* useState result
    podcastScript,          \* useState podcastScript
    error,                  \* useState error
    nearbyLoading,          \* useState nearbyLoading
    allDiscoveredLandmarks, \* useState allDiscoveredLandmarks
    searchText,             \* useState searchText
    readingSection,         \* useState readingSection
    srcObject,              \* videoRef.current.srcObject of the mounted <video>
    camPending,             \* getUserMedia calls not yet settled
    orphans,                \* live streams no element refers to any more
    net,                    \* backend calls in flight
    reqSeq,                 \* number of backend calls issued so far (V1)
    last,                   \* the step just taken, for the steps claims speak about
    superseded,             \* ids of identify calls issued before a newer intent
    engine,                 \* which speechSynthesis.speaking the browser gives
    cards,                  \* the nearby cards as last rendered
    synthQueue,             \* window.speechSynthesis: utterances spoken/queued
    synthEvents,            \* utterances gone from the engine, events to deliver
    reads,                  \* readText calls since narration was last silent
    selectedLang            \* useState selectedLang (V6)

vars == <<image, isScanning, loading, podcastLoading, result, podcastScript,
          error, nearbyLoading, allDiscoveredLandmarks, searchText,
          readingSection, srcObject, camPending, orphans, net, reqSeq, last,
          superseded, engine, cards, synthQueue, synthEvents, reads,
          selectedLang>>

(***************************************************************************)
(* Bounds of the model.                                                    *)
(***************************************************************************)
MaxRequests == 3    \* backend calls issued in one behaviour
MaxStreams == 2     \* device streams pending or live at one time
MaxQueue == 2       \* utterances in the engine at one time
MaxEvents == 1      \* utterances gone from the engine with undelivered events
MaxLen == 1         \* length of a typed query

(***************************************************************************)
(* Values.  A string the code looks into (trim, comparison) is a sequence  *)
(* of characters.                                                          *)
(***************************************************************************)
null == "null"
NoResult == [none |-> TRUE]
NoScript == [none |-> TRUE]
NoLast == [op |-> "none"]

Titles == {<<"a">>, <<"b">>}
Messages == {"", "blurry"}
Frames == {"img1", "img2"}
BlankFrame == "data:,"
Scripts == {"", "script"}

\* The JSON the backend answers an identify call with, or a failure
\* (transport error, or text JSON.parse rejects).  A missing field and an
\* empty one are alike to the code (||), so both are the empty value.
IdentifyResponses ==
    {r \in [status : {"ok", "fail"}, title : Titles \cup {<<>>},
            uncertain : BOOLEAN, message : Messages] :
        /\ r.status = "fail" => (r.title = <<>> /\ ~r.uncertain /\ r.message = "")
        /\ r.message # "" => r.uncertain}

PodcastResponses ==
    {r \in [status : {"ok", "fail"}, script : Scripts] :
        r.status = "fail" => r.script = ""}

LiveStreams == orphans + (IF srcObject = "live" THEN 1 ELSE 0)

\* a new acquisition or identify intent: the identify calls still in flight
\* belong to an earlier intent from now on
Supersede ==
    superseded' = superseded \cup {r.id : r \in {x \in net : x.kind = "identify"}}

(***************************************************************************)
(* V1: src/unnamed/part_000 lines 1-406                                    *)
(***************************************************************************)
DefaultTitle_V1 == <<"?">>
DefaultScript_V1 == "placeholder"

\* a catch block that sets no error
PodcastError_none == null

\* the message the catch block of generatePodcast sets
PodcastError_V1 == "podcast"

\* state the V1 component does not have
otherVars_V1 == <<nearbyLoading, allDiscoveredLandmarks, searchText,
                  readingSection, engine, cards, synthQueue, synthEvents,
                  reads, selectedLang>>

\* stopCamera: stop the tracks of the element's stream, drop it, leave the view
stopCamera_V1 ==
    /\ srcObject' = "none"
    /\ isScanning' = FALSE

\* analyzeImage up to its await
analyzeImage_V1(base64Data, isReverify) ==
    /\ reqSeq < MaxRequests
    /\ loading' = TRUE
    /\ error' = null
    /\ podcastScript' = IF isReverify THEN podcastScript ELSE NoScript
    /\ result' = IF isReverify THEN result ELSE NoResult
    /\ reqSeq' = reqSeq + 1
    /\ net' = net \cup {[id |-> reqSeq + 1, kind |-> "identify",
                         img |-> base64Data, strict |-> isReverify,
                         text |-> <<>>]}

\* a result whose message field is lost
toResult_noMessage(data, id) ==
    [title |-> IF data.title # <<>> THEN data.title ELSE DefaultTitle_V1,
     uncertain |-> data.uncertain,
     message |-> "",
     req |-> id]

\* a result merged into the previous one: an absent title keeps the old title
toResult_merge(data, id) ==
    [title |-> IF data.title # <<>> THEN data.title
               ELSE IF result # NoResult THEN result.title
               ELSE DefaultTitle_V1,
     uncertain |-> data.uncertain,
     message |-> data.message,
     req |-> id]

\* the object analyzeImage passes to setResult; req is the call it answers
toResult_V1(data, id) ==
    [title |-> IF data.title # <<>> THEN data.title ELSE DefaultTitle_V1,
     uncertain |-> data.uncertain,
     message |-> data.message,
     req |-> id]

\* analyzeImage with setLoading(false) at the end of the try block only
analyzeImageReturn_noFinally ==
    \E r \in net : \E resp \in IdentifyResponses :
        /\ r.kind = "identify"
        /\ net' = net \ {r}
        /\ IF resp.status = "ok"
             THEN /\ result' = toResult_V1(resp, r.id)
                  /\ error' = error
                  /\ loading' = FALSE
             ELSE /\ error' = "analysis"
                  /\ result' = result
                  /\ loading' = loading
        /\ last' = [op |-> "return", req |-> r, resp |-> resp]
        /\ UNCHANGED superseded
        /\ UNCHANGED <<image, isScanning, podcastLoading, podcastScript,
                       srcObject, camPending, orphans, reqSeq>>
        /\ UNCHANGED otherVars_V1

\* analyzeImage after its await: try / catch / finally
analyzeImageReturn_V1 ==
    \E r \in net : \E resp \in IdentifyResponses :
        /\ r.kind = "identify"
        /\ net' = net \ {r}
        /\ IF resp.status = "ok"
             THEN /\ result' = toResult_V1(resp, r.id)
                  /\ error' = error
             ELSE /\ error' = "analysis"
                  /\ result' = result
        /\ loading' = FALSE
        /\ last' = [op |-> "return", req |-> r, resp |-> resp]
        /\ UNCHANGED superseded
        /\ UNCHANGED <<image, isScanning, podcastLoading, podcastScript,
                       srcObject, camPending, orphans, reqSeq>>
        /\ UNCHANGED otherVars_V1

\* startCamera up to its await; invoked by the rescan button, the
\* try-again button of the uncertain view and the retry button of the error view
startCamera_V1 ==
    /\ \/ result # NoResult /\ ~loading
       \/ error # null /\ ~loading /\ ~isScanning
    /\ LiveStreams + camPending < MaxStreams
    /\ isScanning' = TRUE
    /\ result' = NoResult
    /\ image' = null
    /\ error' = null
    /\ podcastScript' = NoScript
    /\ camPending' = camPending + 1
    /\ last' = NoLast
    /\ Supersede
    /\ UNCHANGED <<loading, podcastLoading, srcObject, orphans, net, reqSeq>>
    /\ UNCHANGED otherVars_V1

\* getUserMedia resolves: the stream goes to the mounted <video>, if any
cameraGranted_V1 ==
    /\ camPending > 0
    /\ camPending' = camPending - 1
    /\ IF isScanning
         THEN /\ srcObject' = "live"
              /\ orphans' = IF srcObject = "live" THEN orphans + 1 ELSE orphans
         ELSE /\ srcObject' = srcObject
              /\ orphans' = orphans + 1
    /\ last' = NoLast
    /\ UNCHANGED superseded
    /\ UNCHANGED <<image, isScanning, loading, podcastLoading, result,
                   podcastScript, error, net, reqSeq>>
    /\ UNCHANGED otherVars_V1

\* getUserMedia rejects: the catch block; the <video> is unmounted as it is
cameraDenied_V1 ==
    /\ camPending > 0
    /\ camPending' = camPending - 1
    /\ error' = "camera"
    /\ isScanning' = FALSE
    /\ srcObject' = "none"
    /\ orphans' = IF srcObject = "live" THEN orphans + 1 ELSE orphans
    /\ last' = NoLast
    /\ UNCHANGED superseded
    /\ UNCHANGED <<image, loading, podcastLoading, result, podcastScript,
                   net, reqSeq>>
    /\ UNCHANGED otherVars_V1

\* capturePhoto: the shutter button of the camera view
capturePhoto_V1 ==
    /\ isScanning
    /\ \E dataUrl \in (IF srcObject = "live" THEN Frames ELSE {BlankFrame}) :
        /\ image' = dataUrl
        /\ stopCamera_V1
        /\ analyzeImage_V1(dataUrl, FALSE)
    /\ last' = NoLast
    /\ Supersede
    /\ UNCHANGED <<podcastLoading, camPending, orphans>>
    /\ UNCHANGED otherVars_V1

\* the file input's reader.onloadend; the upload button is always rendered
fileUpload_V1 ==
    /\ \E dataUrl \in Frames :
        /\ image' = dataUrl
        /\ stopCamera_V1
        /\ analyzeImage_V1(dataUrl, FALSE)
    /\ last' = NoLast
    /\ Supersede
    /\ UNCHANGED <<podcastLoading, camPending, orphans>>
    /\ UNCHANGED otherVars_V1

\* the re-verify button on the captured image
reverify_V1 ==
    /\ result # NoResult /\ ~loading
    /\ image # null
    /\ ~result.uncertain
    /\ analyzeImage_V1(image, TRUE)
    /\ last' = NoLast
    /\ Supersede
    /\ UNCHANGED <<image, isScanning, podcastLoading, srcObject, camPending,
                   orphans>>
    /\ UNCHANGED otherVars_V1

\* the podcast button is rendered in the confident result view
PodcastButton_V1 ==
    /\ result # NoResult /\ ~loading
    /\ ~result.uncertain
    /\ podcastScript = NoScript /\ ~podcastLoading

\* generatePodcast up to its await
generatePodcast_V1 ==
    /\ PodcastButton_V1
    /\ IF result = NoResult \/ result.uncertain
         THEN UNCHANGED <<podcastLoading, net, reqSeq>>
         ELSE /\ reqSeq < MaxRequests
              /\ podcastLoading' = TRUE
              /\ reqSeq' = reqSeq + 1
              /\ net' = net \cup {[id |-> reqSeq + 1, kind |-> "podcast",
                                   img |-> null, strict |-> FALSE,
                                   text |-> result.title]}
    /\ last' = NoLast
    /\ UNCHANGED superseded
    /\ UNCHANGED <<image, isScanning, loading, result, podcastScript, error,
                   srcObject, camPending, orphans>>
    /\ UNCHANGED otherVars_V1

\* generatePodcast after its await; `result` is the value the call closed over
generatePodcastReturn_V1 ==
    \E r \in net : \E resp \in PodcastResponses :
        /\ r.kind = "podcast"
        /\ net' = net \ {r}
        /\ IF resp.status = "ok"
             THEN /\ podcastScript' =
                        [title |-> r.text,
                         script |-> IF resp.script # "" THEN resp.script
                                    ELSE DefaultScript_V1]
                  /\ error' = error
             ELSE /\ error' = PodcastError_V1
                  /\ podcastScript' = podcastScript
        /\ podcastLoading' = FALSE
        /\ last' = [op |-> "return", req |-> r, resp |-> resp]
        /\ UNCHANGED superseded
        /\ UNCHANGED <<image, isScanning, loading, result, srcObject,
                       camPending, orphans, reqSeq>>
        /\ UNCHANGED otherVars_V1

\* the state once the mount effect has called startCamera
Init_V1 ==
    /\ image = null
    /\ isScanning = TRUE
    /\ loading = FALSE
    /\ podcastLoading = FALSE
    /\ result = NoResult
    /\ podcastScript = NoScript
    /\ error = null
    /\ nearbyLoading = FALSE
    /\ allDiscoveredLandmarks = <<>>
    /\ searchText = <<>>
    /\ readingSection = null
    /\ srcObject = "none"
    /\ camPending = 1
    /\ orphans = 0
    /\ net = {}
    /\ reqSeq = 0
    /\ last = NoLast
    /\ superseded = {}
    /\ engine = "w3c"
    /\ cards = <<>>
    /\ synthQueue = <<>>
    /\ synthEvents = <<>>
    /\ reads = <<>>
    /\ selectedLang = "ar"

Next_V1 ==
    \/ startCamera_V1
    \/ cameraGranted_V1
    \/ cameraDenied_V1
    \/ capturePhoto_V1
    \/ fileUpload_V1
    \/ reverify_V1
    \/ generatePodcast_V1
    \/ analyzeImageReturn_V1
    \/ generatePodcastReturn_V1

Spec_V1 == Init_V1 /\ [][Next_V1]_vars

\* every backend call is answered: the steps that handle an answer are fair
Spec_V1_Fair ==
    /\ Spec_V1
    /\ WF_vars(analyzeImageReturn_V1)
    /\ WF_vars(generatePodcastReturn_V1)

(***************************************************************************)
(* V1: what is on screen                                                   *)
(***************************************************************************)
FallbackMessage_V1 == "try a better angle"

ResultView_V1 == result # NoResult /\ ~loading
UncertainView_V1 == ResultView_V1 /\ result.uncertain
ErrorView_V1 == error # null /\ ~loading /\ ~isScanning

\* the paragraph of the uncertain view
shownMessage_V1 ==
    IF result.message # "" THEN result.message ELSE FallbackMessage_V1

\* the phases of the session as the specification names them
Failed_V1 == ErrorView_V1 /\ result = NoResult
Uncertain_V1 == UncertainView_V1
Presenting_V1 == ResultView_V1 /\ ~result.uncertain

\* the step just taken was the answer to an identify call
IdentifyReturned_V1 == last.op = "return" /\ last.req.kind = "identify"

(***************************************************************************)
(* C1.  Whenever a podcast script is present, a result is present and the  *)
(* script's title is the result's title.                                   *)
(***************************************************************************)
C1_ScriptTitleIsResultTitle ==
    podcastScript # NoScript =>
        (result # NoResult /\ podcastScript.title = result.title)

(***************************************************************************)
(* C9.  When the identify call of a capture or an upload of a picture is   *)
(* answered with a confident result of title T, the session is Presenting: *)
(* loading is false, no error is set, and the result's title is T.         *)
(***************************************************************************)
C9_ConfidentAnswerPresents ==
    (/\ IdentifyReturned_V1
     /\ ~last.req.strict
     /\ last.req.img \in Frames
     /\ last.resp.status = "ok"
     /\ ~last.resp.uncertain
     /\ last.resp.title # <<>>)
    => (/\ ~loading
        /\ error = null
        /\ result # NoResult
        /\ result.title = last.resp.title)

(***************************************************************************)
(* C10.  When an identify call is answered uncertain with message M, the   *)
(* session is Uncertain: no confident result is held, the uncertain view   *)
(* shows M, and the session is not Failed.                                 *)
(***************************************************************************)
C10_UncertainAnswer ==
    (/\ IdentifyReturned_V1
     /\ last.resp.status = "ok"
     /\ last.resp.uncertain
     /\ last.resp.message # "")
    => (/\ Uncertain_V1
        /\ ~Presenting_V1
        /\ shownMessage_V1 = last.resp.message
        /\ ~Failed_V1)

(***************************************************************************)
(* C11.  When the podcast call fails while the session is Presenting, the  *)
(* podcast script stays absent, the result is unchanged, the session stays *)
(* Presenting and is not Failed, podcastLoading is false again and an      *)
(* error message is set.                                                   *)
(***************************************************************************)
C11_PodcastFailureKeepsResult ==
    [][(/\ last'.op = "return"
        /\ last'.req.kind = "podcast"
        /\ last'.resp.status = "fail"
        /\ Presenting_V1)
          => (/\ podcastScript' = NoScript
              /\ result' = result
              /\ Presenting_V1'
              /\ ~Failed_V1'
              /\ ~podcastLoading'
              /\ error' # null)]_vars

C11_Witness ==
    /\ last.op = "return"
    /\ last.req.kind = "podcast"
    /\ last.resp.status = "fail"
    /\ Presenting_V1
    /\ result.title = last.req.text
    /\ podcastScript = NoScript
    /\ ~podcastLoading
    /\ error = PodcastError_V1

(***************************************************************************)
(* C12.  When an identify or re-verify call fails, the session is Failed   *)
(* and holds no result, also when a result was present before the call     *)
(* was issued.  Stated for the re-verify call, the request the result view *)
(* issues.                                                                 *)
(***************************************************************************)
C12_FailureRetainsNoResult ==
    (/\ IdentifyReturned_V1
     /\ last.req.strict
     /\ last.resp.status = "fail")
    => (result = NoResult /\ Failed_V1)

(***************************************************************************)
(* C13.  In every reachable state at most one camera stream has live       *)
(* tracks.                                                                 *)
(***************************************************************************)
C13_OneLiveStream == LiveStreams <= 1

(***************************************************************************)
(* C15.  At any moment at most one identify or re-verify call is in        *)
(* flight.                                                                 *)
(***************************************************************************)
C15_OneIdentifyInFlight ==
    Cardinality({r \in net : r.kind = "identify"}) <= 1

(***************************************************************************)
(* C20: an identify call whose response body is empty, or whose text does  *)
(* not parse, ends with an error set and with no result built from that    *)
(* response.  The empty body reaches the code as the object with no field  *)
(* (response.text || '{}'); the text that does not parse as a failure.     *)
(***************************************************************************)
C20_EmptyAnswerFails ==
    LET emptyBody == [status |-> "ok", title |-> <<>>, uncertain |-> FALSE,
                      message |-> ""]
    IN  (/\ IdentifyReturned_V1
         /\ last.resp = emptyBody \/ last.resp.status = "fail")
        => /\ error # null
           /\ result # NoResult => result.req # last.req.id

(***************************************************************************)
(* C21: whenever an identify call is in flight, no camera stream has live  *)
(* tracks and the camera view is not active.                               *)
(***************************************************************************)
C21_SubmittingStopsCamera ==
    (\E r \in net : r.kind = "identify") => (LiveStreams = 0 /\ ~isScanning)

(***************************************************************************)
(* C22: the camera stream is released on every exit path.  In every        *)
(* reachable state a camera stream with live tracks implies that the       *)
(* camera view is active (isScanning).                                     *)
(***************************************************************************)
C22_LiveStreamImpliesScanning == LiveStreams > 0 => isScanning

(***************************************************************************)
(* C26: a successful re-verify replaces the current result wholesale.      *)
(* Right after the answer of a re-verify call is handled, every field of   *)
(* the current result is the field of that answer or its default; nothing  *)
(* of the previous result is left.                                         *)
(***************************************************************************)
C26_ReverifyReplaces ==
    (/\ IdentifyReturned_V1
     /\ last.req.strict
     /\ last.resp.status = "ok")
    => /\ result # NoResult
       /\ result.title = IF last.resp.title # <<>> THEN last.resp.title
                         ELSE DefaultTitle_V1
       /\ result.uncertain = last.resp.uncertain
       /\ result.message = last.resp.message
       /\ result.req = last.req.id

\* a re-verify has been answered with a landmark that has no title
C26_Witness ==
    /\ IdentifyReturned_V1
    /\ last.req.strict
    /\ last.resp.status = "ok"
    /\ last.resp.title = <<>>
    /\ result.title = DefaultTitle_V1
    /\ image # null

(***************************************************************************)
(* C30: no reachable state has a current result together with the camera   *)
(* view active (isScanning) or an identify call loading.                   *)
(***************************************************************************)
C30_NoResultWhileAcquiring == result # NoResult => (~isScanning /\ ~loading)

(***************************************************************************)
(* C33: an image-based identify call is sent only with an encoded still    *)
(* image: no call in flight carries the empty picture a capture yields     *)
(* when the <video> has no stream.                                         *)
(***************************************************************************)
C33_NoEmptyImageSent ==
    \A r \in net : r.kind = "identify" => r.img # BlankFrame

(***************************************************************************)
(* C34: a result presented together with a subject image was derived from  *)
(* that image.  When the answer of an identify call has just become the    *)
(* current result and an image is held, the image is the one the call was  *)
(* sent with.                                                              *)
(***************************************************************************)
C34_ImageIsResultInput ==
    (/\ IdentifyReturned_V1
     /\ last.resp.status = "ok"
     /\ ResultView_V1
     /\ image # null)
    => image = last.req.img

(***************************************************************************)
(* C35: the loading flag is true exactly when an identify call is in       *)
(* flight.                                                                 *)
(***************************************************************************)
C35_LoadingIffIdentifyInFlight ==
    loading <=> (\E r \in net : r.kind = "identify")

C10_Witness ==
    /\ IdentifyReturned_V1
    /\ last.resp.status = "ok"
    /\ last.resp.uncertain
    /\ last.resp.message = "blurry"
    /\ Uncertain_V1
    /\ shownMessage_V1 = "blurry"

(***************************************************************************)
(* V4: src/App.tsx lines 1-274.  The component has no mount effect: the    *)
(* camera opens on the scan button.  `checking` is set and cleared with    *)
(* `loading` and is read nowhere, so `loading` stands for both.            *)
(***************************************************************************)
otherVars_V4 == <<nearbyLoading, allDiscoveredLandmarks, searchText,
                  readingSection, engine, cards, synthQueue, synthEvents,
                  reads, selectedLang>>

\* stopCamera: stop the tracks of the element's stream, leave the view
stopCamera_V4 ==
    /\ srcObject' = "none"
    /\ isScanning' = FALSE

\* analyzeImage up to its await
analyzeImage_V4(base64Data) ==
    /\ reqSeq < MaxRequests
    /\ loading' = TRUE
    /\ error' = null
    /\ podcastScript' = NoScript
    /\ result' = NoResult
    /\ reqSeq' = reqSeq + 1
    /\ net' = net \cup {[id |-> reqSeq + 1, kind |-> "identify",
                         img |-> base64Data, strict |-> FALSE,
                         text |-> <<>>]}

\* the object analyzeImage passes to setResult: the parsed answer as it is
toResult_V4(data, id) ==
    [title |-> data.title,
     uncertain |-> data.uncertain,
     message |-> data.message,
     req |-> id]

\* analyzeImage after its await: try / catch / finally
analyzeImageReturn_V4 ==
    \E r \in net : \E resp \in IdentifyResponses :
        /\ r.kind = "identify"
        /\ net' = net \ {r}
        /\ IF resp.status = "ok"
             THEN /\ result' = toResult_V4(resp, r.id)
                  /\ error' = error
             ELSE /\ error' = "analysis"
                  /\ result' = result
        /\ loading' = FALSE
        /\ last' = [op |-> "return", req |-> r, resp |-> resp]
        /\ UNCHANGED superseded
        /\ UNCHANGED <<image, isScanning, podcastLoading, podcastScript,
                       srcObject, camPending, orphans, reqSeq>>
        /\ UNCHANGED otherVars_V4

\* startCamera up to its await; the scan button is disabled while loading
startCamera_V4 ==
    /\ ~loading
    /\ LiveStreams + camPending < MaxStreams
    /\ isScanning' = TRUE
    /\ result' = NoResult
    /\ image' = null
    /\ error' = null
    /\ camPending' = camPending + 1
    /\ last' = [op |-> "startCamera"]
    /\ Supersede
    /\ UNCHANGED <<loading, podcastLoading, podcastScript, srcObject, orphans,
                   net, reqSeq>>
    /\ UNCHANGED otherVars_V4

\* getUserMedia resolves: the stream goes to the mounted <video>, if any
cameraGranted_V4 ==
    /\ camPending > 0
    /\ camPending' = camPending - 1
    /\ IF isScanning
         THEN /\ srcObject' = "live"
              /\ orphans' = IF srcObject = "live" THEN orphans + 1 ELSE orphans
         ELSE /\ srcObject' = srcObject
              /\ orphans' = orphans + 1
    /\ last' = NoLast
    /\ UNCHANGED superseded
    /\ UNCHANGED <<image, isScanning, loading, podcastLoading, result,
                   podcastScript, error, net, reqSeq>>
    /\ UNCHANGED otherVars_V4

\* getUserMedia rejects: the catch block; the <video> is unmounted as it is
cameraDenied_V4 ==
    /\ camPending > 0
    /\ camPending' = camPending - 1
    /\ error' = "camera"
    /\ isScanning' = FALSE
    /\ srcObject' = "none"
    /\ orphans' = IF srcObject = "live" THEN orphans + 1 ELSE orphans
    /\ last' = NoLast
    /\ UNCHANGED superseded
    /\ UNCHANGED <<image, loading, podcastLoading, result, podcastScript,
                   net, reqSeq>>
    /\ UNCHANGED otherVars_V4

\* capturePhoto: the shutter button of the camera view
capturePhoto_V4 ==
    /\ isScanning
    /\ \E dataUrl \in (IF srcObject = "live" THEN Frames ELSE {BlankFrame}) :
        /\ image' = dataUrl
        /\ stopCamera_V4
        /\ analyzeImage_V4(dataUrl)
    /\ last' = NoLast
    /\ Supersede
    /\ UNCHANGED <<podcastLoading, camPending, orphans>>
    /\ UNCHANGED otherVars_V4

\* the close button of the camera view
closeCamera_V4 ==
    /\ isScanning
    /\ stopCamera_V4
    /\ last' = NoLast
    /\ UNCHANGED superseded
    /\ UNCHANGED <<image, loading, podcastLoading, result, podcastScript,
                   error, camPending, orphans, net, reqSeq>>
    /\ UNCHANGED otherVars_V4

\* the file input's reader.onloadend; the upload button is disabled while
\* loading, and the handler does not call stopCamera
fileUpload_V4 ==
    /\ ~loading
    /\ \E dataUrl \in Frames :
        /\ image' = dataUrl
        /\ analyzeImage_V4(dataUrl)
    /\ last' = NoLast
    /\ Supersede
    /\ UNCHANGED <<isScanning, podcastLoading, srcObject, camPending, orphans>>
    /\ UNCHANGED otherVars_V4

\* the try-again button of the uncertain view
uncertainRetry_V4 ==
    /\ result # NoResult /\ ~loading
    /\ result.uncertain
    /\ image' = null
    /\ result' = NoResult
    /\ last' = NoLast
    /\ UNCHANGED superseded
    /\ UNCHANGED <<isScanning, loading, podcastLoading, podcastScript, error,
                   srcObject, camPending, orphans, net, reqSeq>>
    /\ UNCHANGED otherVars_V4

\* the podcast button is rendered in the confident result view
PodcastButton_V4 ==
    /\ result # NoResult /\ ~loading
    /\ ~result.uncertain
    /\ podcastScript = NoScript /\ ~podcastLoading

\* generatePodcast up to its await
generatePodcast_V4 ==
    /\ PodcastButton_V4
    /\ IF result = NoResult \/ result.uncertain
         THEN UNCHANGED <<podcastLoading, net, reqSeq>>
         ELSE /\ reqSeq < MaxRequests
              /\ podcastLoading' = TRUE
              /\ reqSeq' = reqSeq + 1
              /\ net' = net \cup {[id |-> reqSeq + 1, kind |-> "podcast",
                                   img |-> null, strict |-> FALSE,
                                   text |-> result.title]}
    /\ last' = NoLast
    /\ UNCHANGED superseded
    /\ UNCHANGED <<image, isScanning, loading, result, podcastScript, error,
                   srcObject, camPending, orphans>>
    /\ UNCHANGED otherVars_V4

\* generatePodcast after its await; `result` is the value the call closed over
generatePodcastReturn_V4 ==
    \E r \in net : \E resp \in PodcastResponses :
        /\ r.kind = "podcast"
        /\ net' = net \ {r}
        /\ IF resp.status = "ok"
             THEN /\ podcastScript' = [title |-> r.text, script |-> resp.script]
                  /\ error' = error
             ELSE /\ error' = "podcast"
                  /\ podcastScript' = podcastScript
        /\ podcastLoading' = FALSE
        /\ last' = [op |-> "return", req |-> r, resp |-> resp]
        /\ UNCHANGED superseded
        /\ UNCHANGED <<image, isScanning, loading, result, srcObject,
                       camPending, orphans, reqSeq>>
        /\ UNCHANGED otherVars_V4

\* the state after construction: every useState at its initial value
Init_V4 ==
    /\ image = null
    /\ isScanning = FALSE
    /\ loading = FALSE
    /\ podcastLoading = FALSE
    /\ result = NoResult
    /\ podcastScript = NoScript
    /\ error = null
    /\ nearbyLoading = FALSE
    /\ allDiscoveredLandmarks = <<>>
    /\ searchText = <<>>
    /\ readingSection = null
    /\ srcObject = "none"
    /\ camPending = 0
    /\ orphans = 0
    /\ net = {}
    /\ reqSeq = 0
    /\ last = NoLast
    /\ superseded = {}
    /\ engine = "w3c"
    /\ cards = <<>>
    /\ synthQueue = <<>>
    /\ synthEvents = <<>>
    /\ reads = <<>>
    /\ selectedLang = "ar"

Next_V4 ==
    \/ startCamera_V4
    \/ cameraGranted_V4
    \/ cameraDenied_V4
    \/ capturePhoto_V4
    \/ closeCamera_V4
    \/ fileUpload_V4
    \/ uncertainRetry_V4
    \/ generatePodcast_V4
    \/ analyzeImageReturn_V4
    \/ generatePodcastReturn_V4

Spec_V4 == Init_V4 /\ [][Next_V4]_vars

(***************************************************************************)
(* C23: entering Acquiring clears the current result, every enrichment     *)
(* (podcast script, nearby list) and the narration section.  The step of   *)
(* startCamera ends with no result, no podcast script, an empty nearby     *)
(* list and readingSection null.                                           *)
(***************************************************************************)
C23_StartCameraClears ==
    [][ last'.op = "startCamera" =>
            /\ result' = NoResult
            /\ podcastScript' = NoScript
            /\ allDiscoveredLandmarks' = <<>>
            /\ readingSection' = null ]_vars

(***************************************************************************)
(* C28: in every reachable state where a current result is present, its    *)
(* title is a non-empty string.                                            *)
(***************************************************************************)
C28_TitleNonEmpty == result # NoResult => result.title # <<>>

(***************************************************************************)
(* C31: from Uncertain the try-again action restarts acquisition.  A step  *)
(* that leaves the uncertain view by dropping the result, without issuing  *)
(* an identify call, ends with the camera view active and one more device  *)
(* stream requested.                                                       *)
(***************************************************************************)
C31_TryAgainRestartsAcquisition ==
    [][ (/\ result # NoResult /\ ~loading
         /\ result.uncertain
         /\ result' = NoResult /\ ~loading')
        => (isScanning' /\ camPending' = camPending + 1) ]_vars

(***************************************************************************)
(* Strings, as String.prototype.trim sees them.                            *)
(***************************************************************************)
Whitespace == {" "}
QueryChars == {" ", "a"}
Queries == UNION {[1..n -> QueryChars] : n \in 0..MaxLen}

RECURSIVE trimStart(_)
trimStart(s) ==
    IF s # <<>> /\ Head(s) \in Whitespace THEN trimStart(Tail(s)) ELSE s

RECURSIVE trimEnd(_)
trimEnd(s) ==
    IF s # <<>> /\ s[Len(s)] \in Whitespace
      THEN trimEnd(SubSeq(s, 1, Len(s) - 1)) ELSE s

trim(s) == trimEnd(trimStart(s))

(***************************************************************************)
(* window.speechSynthesis.  speak() queues an utterance; the engine begins *)
(* to speak the head of its queue and dispatches its start event, and at   *)
(* the end of the text removes it and dispatches its end event.  cancel()  *)
(* empties the queue; the utterance it interrupts gets an end event in     *)
(* some browsers and an error event, which the code does not handle, in    *)
(* others.  The events of one utterance reach its handlers in order; the   *)
(* events of different utterances are not ordered.                         *)
(*                                                                         *)
(* synthQueue holds the utterances in the engine; `notified` says that the *)
(* start event of a started utterance has reached onstart.  synthEvents    *)
(* holds the utterances that left the engine with events still to reach    *)
(* their handlers.                                                         *)
(***************************************************************************)
Sections == {"history", "arch"}
Engines == {"w3c", "chromium"}

\* speechSynthesis.speaking: an utterance has begun and not ended (W3C);
\* Chromium answers true as soon as the queue holds an utterance
speaking ==
    /\ synthQueue # <<>>
    /\ engine = "chromium" \/ synthQueue[1].started

\* the events of the interrupted utterance pending after cancel()
cancelEvents(fireEnd) ==
    IF synthQueue # <<>> /\ synthQueue[1].started
         /\ (fireEnd \/ ~synthQueue[1].notified)
      THEN Append(synthEvents, [section |-> synthQueue[1].section,
                                start |-> ~synthQueue[1].notified,
                                end |-> fireEnd])
      ELSE synthEvents

\* speechSynthesis.cancel() as the handlers other than readText call it
synthCancel ==
    /\ synthQueue' = <<>>
    /\ \E fireEnd \in BOOLEAN :
        /\ Len(cancelEvents(fireEnd)) <= MaxEvents
        /\ synthEvents' = cancelEvents(fireEnd)
    /\ reads' = <<>>

Silent == readingSection = null /\ synthQueue = <<>> /\ synthEvents = <<>>

(***************************************************************************)
(* V5: src/App.tsx lines 277-629                                           *)
(***************************************************************************)
MaxNearby == 2      \* entries of a nearby list the backend answers with
MaxInFlight == 2    \* backend calls of V5 awaiting their answer

Frames_V5 == {"img1"}

\* the id of a call: the smallest one no call in flight carries
FreshRequest ==
    CHOOSE i \in 1..(Cardinality(net) + 1) : i \notin {r.id : r \in net}

NearbyLists == UNION {[1..n -> Titles] : n \in 0..MaxNearby}

NearbyResponses ==
    {r \in [status : {"ok", "fail"}, list : NearbyLists] :
        r.status = "fail" => r.list = <<>>}

\* the answers V5 tells apart: it keeps the parsed JSON as it is
IdentifyResponses_V5 ==
    {r \in IdentifyResponses :
        r.message = "" /\ (r.status = "ok" => r.title # <<>>)}

\* state the V5 component does not have
otherVars_V5 == <<image, podcastLoading, podcastScript, engine, cards,
                  selectedLang>>

stopCamera_V5 ==
    /\ srcObject' = "none"
    /\ isScanning' = FALSE

\* a test for the empty string that does not trim
isEmptyQuery_noTrim(q) == q = <<>>

\* !searchText.trim()
isEmptyQuery_V5(q) == trim(q) = <<>>

\* the cards rendered below the result: the current subject is left out
visibleLandmarks_V5(list, title) ==
    SelectSeq(list, LAMBDA name : trim(name) # trim(title))

\* performAnalysis that clears the nearby list whatever keepNearby says
performAnalysis_clears(prompt, text, imageData, keepNearby) ==
    /\ Cardinality(net) < MaxInFlight
    /\ loading' = TRUE
    /\ error' = null
    /\ synthCancel
    /\ allDiscoveredLandmarks' = <<>>
    /\ reqSeq' = reqSeq
    /\ net' = net \cup {[id |-> FreshRequest, kind |-> "identify",
                         prompt |-> prompt, text |-> text, img |-> imageData,
                         keep |-> keepNearby]}
    /\ Supersede

\* performAnalysis up to its await
performAnalysis_V5(prompt, text, imageData, keepNearby) ==
    /\ Cardinality(net) < MaxInFlight
    /\ loading' = TRUE
    /\ error' = null
    /\ synthCancel
    /\ allDiscoveredLandmarks' =
           IF keepNearby THEN allDiscoveredLandmarks ELSE <<>>
    /\ reqSeq' = reqSeq
    /\ net' = net \cup {[id |-> FreshRequest, kind |-> "identify",
                         prompt |-> prompt, text |-> text, img |-> imageData,
                         keep |-> keepNearby]}
    /\ Supersede

\* performAnalysis with a catch block that issues the failed call again
performAnalysisReturn_retry ==
    \E r \in net : \E resp \in IdentifyResponses_V5 :
        /\ r.kind = "identify"
        /\ net' = IF resp.status = "ok" THEN net \ {r} ELSE net
        /\ IF resp.status = "ok"
             THEN /\ result' = [title |-> resp.title,
                                uncertain |-> resp.uncertain,
                                message |-> resp.message]
                  /\ error' = error
             ELSE /\ error' = "analysis"
                  /\ result' = result
        /\ loading' = FALSE
        /\ superseded' = superseded \ {r.id}
        /\ last' = [op |-> "return"]
        /\ UNCHANGED <<isScanning, nearbyLoading, allDiscoveredLandmarks,
                       searchText, readingSection, srcObject, camPending,
                       orphans, reqSeq, synthQueue, synthEvents, reads>>
        /\ UNCHANGED otherVars_V5

\* performAnalysis after its await: try / catch / finally
performAnalysisReturn_V5 ==
    \E r \in net : \E resp \in IdentifyResponses_V5 :
        /\ r.kind = "identify"
        /\ net' = net \ {r}
        /\ IF resp.status = "ok"
             THEN /\ result' = [title |-> resp.title,
                                uncertain |-> resp.uncertain,
                                message |-> resp.message]
                  /\ error' = error
             ELSE /\ error' = "analysis"
                  /\ result' = result
        /\ loading' = FALSE
        /\ superseded' = superseded \ {r.id}
        /\ last' = [op |-> "return"]
        /\ UNCHANGED <<isScanning, nearbyLoading, allDiscoveredLandmarks,
                       searchText, readingSection, srcObject, camPending,
                       orphans, reqSeq, synthQueue, synthEvents, reads>>
        /\ UNCHANGED otherVars_V5

\* startCamera up to its await; invoked by the new-lens button of the result view
startCamera_V5 ==
    /\ result # NoResult /\ ~loading
    /\ LiveStreams + camPending < MaxStreams
    /\ isScanning' = TRUE
    /\ result' = NoResult
    /\ error' = null
    /\ readingSection' = null
    /\ allDiscoveredLandmarks' = <<>>
    /\ synthCancel
    /\ camPending' = camPending + 1
    /\ Supersede
    /\ last' = [op |-> "startCamera"]
    /\ UNCHANGED <<loading, nearbyLoading, searchText, srcObject, orphans,
                   net, reqSeq>>
    /\ UNCHANGED otherVars_V5

\* getUserMedia resolves: the stream goes to the mounted <video>, if any
cameraGranted_V5 ==
    /\ camPending > 0
    /\ camPending' = camPending - 1
    /\ IF isScanning
         THEN /\ srcObject' = "live"
              /\ orphans' = IF srcObject = "live" THEN orphans + 1 ELSE orphans
         ELSE /\ srcObject' = srcObject
              /\ orphans' = orphans + 1
    /\ last' = NoLast
    /\ UNCHANGED <<isScanning, loading, nearbyLoading, result, error,
                   allDiscoveredLandmarks, searchText, readingSection, net,
                   reqSeq, superseded, synthQueue, synthEvents, reads>>
    /\ UNCHANGED otherVars_V5

\* getUserMedia rejects: the catch block; the <video> is unmounted as it is
cameraDenied_V5 ==
    /\ camPending > 0
    /\ camPending' = camPending - 1
    /\ isScanning' = FALSE
    /\ srcObject' = "none"
    /\ orphans' = IF srcObject = "live" THEN orphans + 1 ELSE orphans
    /\ last' = NoLast
    /\ UNCHANGED <<loading, nearbyLoading, result, error,
                   allDiscoveredLandmarks, searchText, readingSection, net,
                   reqSeq, superseded, synthQueue, synthEvents, reads>>
    /\ UNCHANGED otherVars_V5

\* the shutter button of the camera view
capture_V5 ==
    /\ isScanning
    /\ \E dataUrl \in (IF srcObject = "live" THEN Frames_V5 ELSE {BlankFrame}) :
        /\ stopCamera_V5
        /\ performAnalysis_V5("capture", <<>>, dataUrl, FALSE)
    /\ last' = NoLast
    /\ UNCHANGED <<nearbyLoading, result, searchText, readingSection,
                   camPending, orphans>>
    /\ UNCHANGED otherVars_V5

\* the file input's reader.onloadend; the upload button is always rendered
fileUpload_V5 ==
    /\ \E dataUrl \in Frames_V5 :
        /\ stopCamera_V5
        /\ performAnalysis_V5("upload", <<>>, dataUrl, FALSE)
    /\ last' = NoLast
    /\ UNCHANGED <<nearbyLoading, result, searchText, readingSection,
                   camPending, orphans>>
    /\ UNCHANGED otherVars_V5

\* the search input's onChange
setSearchText_V5 ==
    /\ \E q \in Queries : q # searchText /\ searchText' = q
    /\ last' = NoLast
    /\ UNCHANGED <<isScanning, loading, nearbyLoading, result, error,
                   allDiscoveredLandmarks, readingSection, srcObject,
                   camPending, orphans, net, reqSeq, superseded, synthQueue,
                   synthEvents, reads>>
    /\ UNCHANGED otherVars_V5

\* handleSearch: the search form of the header, always rendered
handleSearch_V5 ==
    /\ IF isEmptyQuery_V5(searchText)
         THEN UNCHANGED <<isScanning, loading, error, allDiscoveredLandmarks,
                          srcObject, net, reqSeq, superseded, synthQueue,
                          synthEvents, reads>>
         ELSE /\ stopCamera_V5
              /\ performAnalysis_V5("byName", searchText, null, FALSE)
    /\ last' = [op |-> "handleSearch", query |-> searchText]
    /\ UNCHANGED <<nearbyLoading, result, searchText, readingSection,
                   camPending, orphans>>
    /\ UNCHANGED otherVars_V5

\* a nearby button that stays while its call is in flight
NearbyButton_always ==
    /\ result # NoResult /\ ~loading
    /\ Len(allDiscoveredLandmarks) = 0

\* the nearby button is rendered in the result view while the list is empty
NearbyButton_V5 ==
    /\ result # NoResult /\ ~loading
    /\ Len(allDiscoveredLandmarks) = 0 /\ ~nearbyLoading

\* findNearby up to its await
findNearby_V5 ==
    /\ NearbyButton_V5
    /\ IF result = NoResult
         THEN UNCHANGED <<nearbyLoading, net, reqSeq>>
         ELSE /\ Cardinality(net) < MaxInFlight
              /\ nearbyLoading' = TRUE
              /\ reqSeq' = reqSeq
              /\ net' = net \cup {[id |-> FreshRequest, kind |-> "nearby",
                                   prompt |-> "nearby", text |-> result.title,
                                   img |-> null, keep |-> FALSE]}
    /\ last' = NoLast
    /\ UNCHANGED <<isScanning, loading, result, error, allDiscoveredLandmarks,
                   searchText, readingSection, srcObject, camPending, orphans,
                   superseded, synthQueue, synthEvents, reads>>
    /\ UNCHANGED otherVars_V5

\* findNearby after its await: try / catch / finally
findNearbyReturn_V5 ==
    \E r \in net : \E resp \in NearbyResponses :
        /\ r.kind = "nearby"
        /\ net' = net \ {r}
        /\ allDiscoveredLandmarks' =
               IF resp.status = "ok" THEN resp.list ELSE allDiscoveredLandmarks
        /\ nearbyLoading' = FALSE
        /\ last' = [op |-> "return"]
        /\ UNCHANGED <<isScanning, loading, result, error, searchText,
                       readingSection, srcObject, camPending, orphans, reqSeq,
                       superseded, synthQueue, synthEvents, reads>>
        /\ UNCHANGED otherVars_V5

\* handleSelectLandmark: the button of a rendered nearby card
handleSelectLandmark_V5 ==
    /\ result # NoResult /\ ~loading
    /\ Len(allDiscoveredLandmarks) > 0
    /\ \E name \in {visibleLandmarks_V5(allDiscoveredLandmarks, result.title)[i] :
                    i \in 1..Len(visibleLandmarks_V5(allDiscoveredLandmarks,
                                                     result.title))} :
        /\ searchText' = name
        /\ performAnalysis_V5("byName", name, null, TRUE)
    /\ last' = NoLast
    /\ UNCHANGED <<isScanning, nearbyLoading, result, readingSection,
                   srcObject, camPending, orphans>>
    /\ UNCHANGED otherVars_V5

\* readText: the play/stop buttons of the history and architecture sections
readText_V5 ==
    /\ result # NoResult /\ ~loading
    /\ \E sectionId \in Sections : \E fireEnd \in BOOLEAN :
        LET cancelled == speaking
            queue == IF cancelled THEN <<>> ELSE synthQueue
            events == IF cancelled THEN cancelEvents(fireEnd) ELSE synthEvents
        IN  /\ Len(events) <= MaxEvents
            /\ synthEvents' = events
            /\ IF cancelled /\ readingSection = sectionId
                 THEN /\ readingSection' = null
                      /\ synthQueue' = queue
                 ELSE /\ Len(queue) < MaxQueue
                      /\ readingSection' = readingSection
                      /\ synthQueue' =
                             Append(queue, [section |-> sectionId,
                                            started |-> FALSE,
                                            notified |-> FALSE])
            /\ reads' = IF Silent THEN <<sectionId>>
                        ELSE IF Len(reads) = 1 THEN Append(reads, sectionId)
                        ELSE <<>>
    /\ last' = [op |-> "readText"]
    /\ UNCHANGED <<isScanning, loading, nearbyLoading, result, error,
                   allDiscoveredLandmarks, searchText, srcObject, camPending,
                   orphans, net, reqSeq, superseded>>
    /\ UNCHANGED otherVars_V5

\* the engine begins to speak the utterance at the head of its queue
utteranceBegins ==
    /\ synthQueue # <<>> /\ ~synthQueue[1].started
    /\ synthQueue' = [synthQueue EXCEPT ![1].started = TRUE]
    /\ last' = NoLast
    /\ UNCHANGED <<isScanning, loading, nearbyLoading, result, error,
                   allDiscoveredLandmarks, searchText, readingSection,
                   srcObject, camPending, orphans, net, reqSeq, superseded,
                   synthEvents, reads>>
    /\ UNCHANGED otherVars_V5

\* the engine has spoken the utterance at the head of its queue to its end
utteranceEnds ==
    /\ synthQueue # <<>> /\ synthQueue[1].started
    /\ Len(synthEvents) < MaxEvents
    /\ synthQueue' = Tail(synthQueue)
    /\ synthEvents' = Append(synthEvents,
                             [section |-> synthQueue[1].section,
                              start |-> ~synthQueue[1].notified,
                              end |-> TRUE])
    /\ reads' = <<>>
    /\ last' = NoLast
    /\ UNCHANGED <<isScanning, loading, nearbyLoading, result, error,
                   allDiscoveredLandmarks, searchText, readingSection,
                   srcObject, camPending, orphans, net, reqSeq, superseded>>
    /\ UNCHANGED otherVars_V5

\* utterance.onstart = () => setReadingSection(sectionId)
onstart_V5 ==
    /\ \/ /\ synthQueue # <<>>
          /\ synthQueue[1].started /\ ~synthQueue[1].notified
          /\ readingSection' = synthQueue[1].section
          /\ synthQueue' = [synthQueue EXCEPT ![1].notified = TRUE]
          /\ synthEvents' = synthEvents
       \/ \E i \in 1..Len(synthEvents) :
          /\ synthEvents[i].start
          /\ readingSection' = synthEvents[i].section
          /\ synthEvents' =
                 IF synthEvents[i].end
                   THEN [synthEvents EXCEPT ![i].start = FALSE]
                   ELSE SubSeq(synthEvents, 1, i - 1)
                            \o SubSeq(synthEvents, i + 1, Len(synthEvents))
          /\ synthQueue' = synthQueue
    /\ last' = NoLast
    /\ UNCHANGED <<isScanning, loading, nearbyLoading, result, error,
                   allDiscoveredLandmarks, searchText, srcObject, camPending,
                   orphans, net, reqSeq, superseded, reads>>
    /\ UNCHANGED otherVars_V5

\* utterance.onend = () => setReadingSection(null)
onend_V5 ==
    /\ \E i \in 1..Len(synthEvents) :
        /\ ~synthEvents[i].start /\ synthEvents[i].end
        /\ readingSection' = null
        /\ synthEvents' = SubSeq(synthEvents, 1, i - 1)
                              \o SubSeq(synthEvents, i + 1, Len(synthEvents))
    /\ last' = NoLast
    /\ UNCHANGED <<isScanning, loading, nearbyLoading, result, error,
                   allDiscoveredLandmarks, searchText, srcObject, camPending,
                   orphans, net, reqSeq, superseded, synthQueue, reads>>
    /\ UNCHANGED otherVars_V5

\* the state once the mount effect has called startCamera
Init_V5 ==
    /\ image = null
    /\ isScanning = TRUE
    /\ loading = FALSE
    /\ podcastLoading = FALSE
    /\ result = NoResult
    /\ podcastScript = NoScript
    /\ error = null
    /\ nearbyLoading = FALSE
    /\ allDiscoveredLandmarks = <<>>
    /\ searchText = <<>>
    /\ readingSection = null
    /\ srcObject = "none"
    /\ camPending = 1
    /\ orphans = 0
    /\ net = {}
    /\ reqSeq = 0
    /\ last = NoLast
    /\ superseded = {}
    /\ engine \in Engines
    /\ cards = <<>>
    /\ synthQueue = <<>>
    /\ synthEvents = <<>>
    /\ reads = <<>>
    /\ selectedLang = "ar"

Next_V5 ==
    \/ startCamera_V5
    \/ cameraGranted_V5
    \/ cameraDenied_V5
    \/ capture_V5
    \/ fileUpload_V5
    \/ setSearchText_V5
    \/ handleSearch_V5
    \/ findNearby_V5
    \/ findNearbyReturn_V5
    \/ handleSelectLandmark_V5
    \/ performAnalysisReturn_V5

Spec_V5 == Init_V5 /\ [][Next_V5]_vars

(***************************************************************************)
(* C2.  The answer to an identify call that was in flight when a newer     *)
(* acquisition or identify intent was issued does not change the current   *)
(* result.                                                                 *)
(***************************************************************************)
C2_StaleAnswerIgnored ==
    [][\A r \in net \ net' :
          (r.kind = "identify" /\ r.id \in superseded) => result' = result]_vars

(***************************************************************************)
(* C3.  While the current result is flagged uncertain, no step starts an   *)
(* enrichment call: findNearby on an uncertain result issues no request.   *)
(***************************************************************************)
C3_UncertainGatesEnrichment ==
    [][(result # NoResult /\ result.uncertain) =>
          \A r \in net' \ net : r.kind # "nearby"]_vars

C17_NoAutomaticRetry ==
    [][ /\ Cardinality(net' \ net) <= 1
        /\ Cardinality(net') <= Cardinality(net) + 1
        /\ last'.op = "return" =>
               /\ net' \subseteq net
               /\ Cardinality(net') = Cardinality(net) - 1 ]_vars

\* a failed identify call has been answered and no call is in flight
C17_Witness ==
    /\ last.op = "return"
    /\ error = "analysis"
    /\ result = NoResult
    /\ net = {}

\* the blocks <main> renders in V5: the scanner, the loading view, the result
mainViews_V5 ==
    {v \in {"scanner", "loading", "result"} :
        CASE v = "scanner" -> isScanning
          [] v = "loading" -> loading
          [] v = "result"  -> result # NoResult /\ ~loading}

\* V5 shows the error message: no block of its render reads `error`
ErrorView_V5 == "error" \in mainViews_V5

(***************************************************************************)
(* C18: a terminal error leaves an error message visible to the user.      *)
(* Once the answer of a failed identify call has been handled and `error`  *)
(* is set, the screen shows the error message.                             *)
(***************************************************************************)
C18_TerminalErrorIsShown ==
    (last.op = "return" /\ error # null) => ErrorView_V5

(***************************************************************************)
(* C24: when the device-stream request of startCamera fails, a             *)
(* camera-permission error is set and the camera view is inactive.  The    *)
(* failing step is the one that settles a pending request and adds no live *)
(* stream.                                                                 *)
(***************************************************************************)
C24_CameraFailureSetsError ==
    [][ (camPending' < camPending /\ LiveStreams' = LiveStreams)
            => (error' = "camera" /\ ~isScanning') ]_vars

(***************************************************************************)
(* C25: a nearby-discovery response is applied only if the subject it was  *)
(* requested for is still the current subject.  A step that takes a nearby *)
(* call out of flight and changes the nearby list does so only while the   *)
(* current result carries the title the call was made for.                 *)
(***************************************************************************)
C25_StaleNearbyDropped ==
    [][ \A r \in net \ net' :
            (r.kind = "nearby" /\ allDiscoveredLandmarks' # allDiscoveredLandmarks)
                => (result # NoResult /\ result.title = r.text) ]_vars

(***************************************************************************)
(* C27: selecting a nearby entry issues exactly one identify-by-name call  *)
(* for the name of an entry of the list and leaves the list as it is, when *)
(* the call is issued and when its answer, good or bad, is handled; an     *)
(* identify call issued by capture, upload or search empties the list.     *)
(***************************************************************************)
C27_SelectKeepsNearbyList ==
    [][ /\ \A r \in net' \ net :
              r.kind = "identify" =>
                  IF r.keep
                    THEN /\ net' \ net = {r}
                         /\ r.prompt = "byName"
                         /\ \E i \in 1..Len(allDiscoveredLandmarks) :
                                allDiscoveredLandmarks[i] = r.text
                         /\ allDiscoveredLandmarks' = allDiscoveredLandmarks
                    ELSE allDiscoveredLandmarks' = <<>>
        /\ \A r \in net \ net' :
              r.kind = "identify" =>
                  allDiscoveredLandmarks' = allDiscoveredLandmarks ]_vars

\* the call of a selected entry is in flight and the list is still there
C27_Witness ==
    /\ \E r \in net : r.kind = "identify" /\ r.keep
    /\ Len(allDiscoveredLandmarks) > 0
    /\ loading

(***************************************************************************)
(* C8.  handleSearch with a query that is empty or white space only issues *)
(* no backend call, in every state: the calls in flight are the same       *)
(* before and after it.                                                    *)
(***************************************************************************)
C8_BlankSearchIssuesNoCall ==
    [][(/\ last'.op = "handleSearch"
        /\ \A i \in 1..Len(last'.query) : last'.query[i] = " ")
          => net' = net]_vars

C8_Witness ==
    /\ last.op = "handleSearch"
    /\ last.query = <<" ">>
    /\ net = {}

(***************************************************************************)
(* Narration in V5.  readText and the engine read and write readingSection *)
(* and the engine's state only, and the discovery handlers never read      *)
(* them: this specification runs the narration against the handlers that   *)
(* cancel speech and that show and hide the result view with its play      *)
(* buttons.                                                                *)
(***************************************************************************)
Next_Narration ==
    \/ startCamera_V5
    \/ cameraGranted_V5
    \/ cameraDenied_V5
    \/ capture_V5
    \/ fileUpload_V5
    \/ performAnalysisReturn_V5
    \/ readText_V5
    \/ utteranceBegins
    \/ utteranceEnds
    \/ onstart_V5
    \/ onend_V5

Spec_Narration == Init_V5 /\ [][Next_Narration]_vars

\* every event the engine has dispatched has reached its handler
EventsDelivered ==
    /\ synthEvents = <<>>
    /\ synthQueue # <<>> /\ synthQueue[1].started => synthQueue[1].notified

(***************************************************************************)
(* C4.  Starting from Silent, two consecutive readText calls for the same  *)
(* section leave the narration Silent once the engine's events have been   *)
(* delivered: readingSection is null and the engine holds no utterance.    *)
(***************************************************************************)
C4_ToggleOff ==
    (Len(reads) = 2 /\ reads[1] = reads[2] /\ EventsDelivered)
        => (readingSection = null /\ synthQueue = <<>>)

(***************************************************************************)
(* C5.  readText for "history" followed by readText for "arch" ends, once  *)
(* the engine's events have been delivered, with the "arch" utterance      *)
(* speaking and readingSection = "arch".                                   *)
(***************************************************************************)
C5_SwitchSection ==
    (/\ reads = <<"history", "arch">>
     /\ EventsDelivered
     /\ synthQueue # <<>> /\ synthQueue[1].started)
    => (/\ readingSection = "arch"
        /\ Len(synthQueue) = 1
        /\ synthQueue[1].section = "arch")

(***************************************************************************)
(* C14.  A new acquisition leaves the narration Silent: from startCamera   *)
(* on, and until a result is shown again, readingSection is null; no later *)
(* event of the cancelled utterance sets it to a section.  (isScanning     *)
(* with no result holds exactly from startCamera until the next capture,   *)
(* upload or answer, and readText needs a result.)                         *)
(***************************************************************************)
C14_AcquisitionSilences ==
    (isScanning /\ result = NoResult) => readingSection = null

(***************************************************************************)
(* C19.  readText has replaced a "history" utterance by an "arch"          *)
(* utterance, "arch" is speaking with its onstart delivered, and the onend *)
(* of the cancelled "history" utterance is still to come.  The step that   *)
(* delivers this late onend leaves readingSection = "arch": onend sets     *)
(* the narration Silent only for the section that is still the active one. *)
(***************************************************************************)
C19_LateOnendKeepsSection ==
    [][ (/\ reads = <<"history", "arch">>
         /\ Len(synthQueue) = 1
         /\ synthQueue[1].section = "arch"
         /\ synthQueue[1].started /\ synthQueue[1].notified
         /\ readingSection = "arch"
         /\ synthEvents = <<[section |-> "history", start |-> FALSE,
                                                    end |-> TRUE]>>
         /\ synthEvents' = <<>>
         /\ synthQueue' = synthQueue)
        => readingSection' = "arch" ]_vars

(***************************************************************************)
(* C37.  The narration indicator matches the engine.  Once every event the *)
(* engine has dispatched has reached its handler, readingSection is null   *)
(* exactly when no utterance is being spoken, and otherwise it names the   *)
(* section of the utterance being spoken.                                  *)
(***************************************************************************)
C37_IndicatorMatchesEngine ==
    EventsDelivered =>
        LET spoken == synthQueue # <<>> /\ synthQueue[1].started
        IN  /\ readingSection = null <=> ~spoken
            /\ readingSection # null =>
                   (spoken /\ synthQueue[1].section = readingSection)

(* C38.  Narration never outlives the result it reads: an utterance, spoken
   or queued, was made by readText from the sections of the result shown at
   that time, so it reads the current result only as long as the result is
   not replaced under it.  Every step that changes the result leaves the
   engine's queue empty (the utterance was cancelled before the change), and
   no utterance is alive while there is no result. *)
C38_NarrationNeverOutlivesResult ==
    [][ /\ result' # result => synthQueue' = <<>>
        /\ synthQueue' # <<>> => result' # NoResult ]_vars

(***************************************************************************)
(* C6.  At most one utterance is alive, speaking or queued in the engine,  *)
(* in every reachable state.                                               *)
(***************************************************************************)
C6_OneUtteranceAlive == Len(synthQueue) <= 1

(***************************************************************************)
(* V6: src/unnamed/part_001.  The discovery handlers and the language      *)
(* select; readText is the code of V5.  `image` is capturedImage.  The     *)
(* backend answers in the language its call names, so a result carries     *)
(* that language.                                                          *)
(***************************************************************************)
Langs == {"ar", "en"}

NearbyLists_V6 == {<<>>} \cup {<<t>> : t \in Titles}

IdentifyResponses_V6 ==
    {r \in [status : {"ok", "fail"}, title : Titles \cup {<<>>},
            nearby : NearbyLists_V6] :
        r.status = "fail" => (r.title = <<>> /\ r.nearby = <<>>)}

\* state the V6 component does not have
otherVars_V6 == <<podcastLoading, podcastScript, nearbyLoading,
                  allDiscoveredLandmarks, engine, cards, readingSection>>

\* the <video> element is rendered
videoMounted_V6 == isScanning /\ ~loading /\ error = null

stopCamera_V6 ==
    /\ srcObject' = "none"
    /\ isScanning' = FALSE

\* a re-render that takes the <video> away with its stream still live
dropVideo_V6(mountedAfter) ==
    IF srcObject = "live" /\ ~mountedAfter
      THEN /\ srcObject' = "none"
           /\ orphans' = orphans + 1
      ELSE UNCHANGED <<srcObject, orphans>>

\* performAnalysis up to its await; langName is read before the await
performAnalysis_V6(prompt, text, imageData) ==
    /\ Cardinality(net) < MaxInFlight
    /\ loading' = TRUE
    /\ error' = null
    /\ image' = IF imageData # null THEN imageData ELSE image
    /\ synthCancel
    /\ reqSeq' = reqSeq
    /\ net' = net \cup {[id |-> FreshRequest, kind |-> "identify",
                         prompt |-> prompt, text |-> text, img |-> imageData,
                         lang |-> selectedLang]}
    /\ Supersede

\* performAnalysis after its await: try / catch / finally
performAnalysisReturn_V6 ==
    \E r \in net : \E resp \in IdentifyResponses_V6 :
        /\ r.kind = "identify"
        /\ net' = net \ {r}
        /\ IF resp.status = "ok"
             THEN /\ result' = [title |-> resp.title, nearby |-> resp.nearby,
                                lang |-> r.lang]
                  /\ error' = error
             ELSE /\ error' = "analysis"
                  /\ result' = result
        /\ loading' = FALSE
        /\ superseded' = superseded \ {r.id}
        /\ last' = [op |-> "return"]
        /\ UNCHANGED <<image, isScanning, searchText, srcObject, camPending,
                       orphans, reqSeq, synthQueue, synthEvents, reads,
                       selectedLang>>
        /\ UNCHANGED otherVars_V6

\* a language select that drops the result fetched in the old language
setSelectedLang_refetch ==
    /\ \E lang \in Langs : lang # selectedLang /\ selectedLang' = lang
    /\ result' = NoResult
    /\ last' = NoLast
    /\ UNCHANGED <<image, isScanning, loading, error, searchText,
                   srcObject, camPending, orphans, net, reqSeq, superseded,
                   synthQueue, synthEvents, reads>>
    /\ UNCHANGED otherVars_V6

\* the language select's onChange
setSelectedLang_V6 ==
    /\ \E lang \in Langs : lang # selectedLang /\ selectedLang' = lang
    /\ last' = NoLast
    /\ UNCHANGED <<image, isScanning, loading, result, error, searchText,
                   srcObject, camPending, orphans, net, reqSeq, superseded,
                   synthQueue, synthEvents, reads>>
    /\ UNCHANGED otherVars_V6

\* startCamera up to its await; invoked by the new-scan button of the result view
startCamera_V6 ==
    /\ result # NoResult /\ ~loading
    /\ LiveStreams + camPending < MaxStreams
    /\ isScanning' = TRUE
    /\ result' = NoResult
    /\ error' = null
    /\ image' = null
    /\ synthCancel
    /\ camPending' = camPending + 1
    /\ Supersede
    /\ last' = [op |-> "startCamera"]
    /\ UNCHANGED <<loading, searchText, srcObject, orphans, net, reqSeq,
                   selectedLang>>
    /\ UNCHANGED otherVars_V6

\* getUserMedia resolves: the stream goes to the mounted <video>, if any
cameraGranted_V6 ==
    /\ camPending > 0
    /\ camPending' = camPending - 1
    /\ IF videoMounted_V6
         THEN /\ srcObject' = "live"
              /\ orphans' = IF srcObject = "live" THEN orphans + 1 ELSE orphans
         ELSE /\ srcObject' = srcObject
              /\ orphans' = orphans + 1
    /\ last' = NoLast
    /\ UNCHANGED <<image, isScanning, loading, result, error, searchText, net,
                   reqSeq, superseded, synthQueue, synthEvents, reads,
                   selectedLang>>
    /\ UNCHANGED otherVars_V6

\* getUserMedia rejects: the catch block
cameraDenied_V6 ==
    /\ camPending > 0
    /\ camPending' = camPending - 1
    /\ isScanning' = FALSE
    /\ error' = "camera"
    /\ dropVideo_V6(FALSE)
    /\ last' = NoLast
    /\ UNCHANGED <<image, loading, result, searchText, net, reqSeq, superseded,
                   synthQueue, synthEvents, reads, selectedLang>>
    /\ UNCHANGED otherVars_V6

\* the shutter button of the camera view
capture_V6 ==
    /\ videoMounted_V6
    /\ \E dataUrl \in (IF srcObject = "live" THEN Frames_V5 ELSE {BlankFrame}) :
        /\ stopCamera_V6
        /\ performAnalysis_V6("capture", <<>>, dataUrl)
    /\ last' = NoLast
    /\ UNCHANGED <<result, searchText, camPending, orphans, selectedLang>>
    /\ UNCHANGED otherVars_V6

\* the file input's reader.onloadend; the upload button is always rendered
fileUpload_V6 ==
    /\ \E dataUrl \in Frames_V5 :
        /\ stopCamera_V6
        /\ performAnalysis_V6("upload", <<>>, dataUrl)
    /\ last' = NoLast
    /\ UNCHANGED <<result, searchText, camPending, orphans, selectedLang>>
    /\ UNCHANGED otherVars_V6

\* the search input's onChange
setSearchText_V6 ==
    /\ \E q \in Queries : q # searchText /\ searchText' = q
    /\ last' = NoLast
    /\ UNCHANGED <<image, isScanning, loading, result, error, srcObject,
                   camPending, orphans, net, reqSeq, superseded, synthQueue,
                   synthEvents, reads, selectedLang>>
    /\ UNCHANGED otherVars_V6

\* handleSearch: the search form of the header, always rendered
handleSearch_V6 ==
    /\ IF trim(searchText) = <<>>
         THEN UNCHANGED <<image, isScanning, loading, error, srcObject, net,
                          reqSeq, superseded, synthQueue, synthEvents, reads>>
         ELSE /\ stopCamera_V6
              /\ performAnalysis_V6("byName", searchText, null)
    /\ last' = [op |-> "handleSearch", query |-> searchText]
    /\ UNCHANGED <<result, searchText, camPending, orphans, selectedLang>>
    /\ UNCHANGED otherVars_V6

\* the button of a nearby landmark of the result view
selectNearby_V6 ==
    /\ result # NoResult /\ ~loading
    /\ \E i \in 1..Len(result.nearby) :
        performAnalysis_V6("byName", result.nearby[i], null)
    /\ dropVideo_V6(FALSE)
    /\ last' = NoLast
    /\ UNCHANGED <<isScanning, result, searchText, camPending, selectedLang>>
    /\ UNCHANGED otherVars_V6

\* the state once the mount effect has called startCamera
Init_V6 ==
    /\ image = null
    /\ isScanning = TRUE
    /\ loading = FALSE
    /\ podcastLoading = FALSE
    /\ result = NoResult
    /\ podcastScript = NoScript
    /\ error = null
    /\ nearbyLoading = FALSE
    /\ allDiscoveredLandmarks = <<>>
    /\ searchText = <<>>
    /\ readingSection = null
    /\ srcObject = "none"
    /\ camPending = 1
    /\ orphans = 0
    /\ net = {}
    /\ reqSeq = 0
    /\ last = NoLast
    /\ superseded = {}
    /\ engine = "w3c"
    /\ cards = <<>>
    /\ synthQueue = <<>>
    /\ synthEvents = <<>>
    /\ reads = <<>>
    /\ selectedLang = "ar"

Next_V6 ==
    \/ startCamera_V6
    \/ cameraGranted_V6
    \/ cameraDenied_V6
    \/ capture_V6
    \/ fileUpload_V6
    \/ setSearchText_V6
    \/ handleSearch_V6
    \/ selectNearby_V6
    \/ setSelectedLang_V6
    \/ performAnalysisReturn_V6

Spec_V6 == Init_V6 /\ [][Next_V6]_vars

(***************************************************************************)
(* C29: changing the selected language leaves the current result as it is  *)
(* and issues no backend call; a call carries the language selected when   *)
(* it was issued, and a change of language leaves the calls in flight      *)
(* untouched.                                                              *)
(***************************************************************************)
C29_LanguageChangeIsLocal ==
    [][ /\ selectedLang' # selectedLang => (result' = result /\ net' = net)
        /\ \A r \in net' \ net : r.lang = selectedLang ]_vars

\* the language has been changed with a result shown and a call in flight
C29_Witness ==
    /\ result # NoResult
    /\ result.lang # selectedLang
    /\ \E r \in net : r.lang # selectedLang

(***************************************************************************)
(* The nearby cards as a function of the list and the title.  The list and *)
(* the title are drawn from names that differ in case and in surrounding   *)
(* white space; V5 renders the filtered list, V2 the list as it is.        *)
(***************************************************************************)
MaxList == 3        \* entries of the list the cards are rendered from

FilterNames == {<<"l">>, <<"L">>, <<" ", "l">>, <<"l", " ">>, <<"b">>}

renderNearby_V5 ==
    /\ last = NoLast
    /\ cards' = visibleLandmarks_V5(allDiscoveredLandmarks, result.title)
    /\ last' = [op |-> "render", variant |-> "V5"]
    /\ UNCHANGED <<image, isScanning, loading, podcastLoading, result,
                   podcastScript, error, nearbyLoading, allDiscoveredLandmarks,
                   searchText, readingSection, srcObject, camPending, orphans,
                   net, reqSeq, superseded, engine, synthQueue, synthEvents,
                   reads, selectedLang>>

renderNearby_V2 ==
    /\ last = NoLast
    /\ cards' = allDiscoveredLandmarks
    /\ last' = [op |-> "render", variant |-> "V2"]
    /\ UNCHANGED <<image, isScanning, loading, podcastLoading, result,
                   podcastScript, error, nearbyLoading, allDiscoveredLandmarks,
                   searchText, readingSection, srcObject, camPending, orphans,
                   net, reqSeq, superseded, engine, synthQueue, synthEvents,
                   reads, selectedLang>>

Init_Filter ==
    /\ image = null
    /\ isScanning = FALSE
    /\ loading = FALSE
    /\ podcastLoading = FALSE
    /\ result \in {[title |-> t, uncertain |-> FALSE, message |-> ""] :
                        t \in FilterNames}
    /\ podcastScript = NoScript
    /\ error = null
    /\ nearbyLoading = FALSE
    /\ allDiscoveredLandmarks \in UNION {[1..n -> FilterNames] : n \in 0..MaxList}
    /\ searchText = <<>>
    /\ readingSection = null
    /\ srcObject = "none"
    /\ camPending = 0
    /\ orphans = 0
    /\ net = {}
    /\ reqSeq = 0
    /\ last = NoLast
    /\ superseded = {}
    /\ engine = "w3c"
    /\ cards = <<>>
    /\ synthQueue = <<>>
    /\ synthEvents = <<>>
    /\ reads = <<>>
    /\ selectedLang = "ar"

Next_Filter ==
    \/ renderNearby_V5
    \/ renderNearby_V2

Spec_Filter == Init_Filter /\ [][Next_Filter]_vars

(***************************************************************************)
(* C7.  The list presented holds no entry whose name equals the title when *)
(* both are trimmed and compared without regard to case, and holds every   *)
(* other entry of the returned list in its order.                          *)
(***************************************************************************)
C7_SelfFilter ==
    LET lower(s) == [i \in 1..Len(s) |-> IF s[i] = "L" THEN "l" ELSE s[i]]
        same(name) == lower(trim(name)) = lower(trim(result.title))
    IN  (last.op = "render" /\ last.variant = "V5") =>
            cards = SelectSeq(allDiscoveredLandmarks, LAMBDA name : ~same(name))

(***************************************************************************)
(* The number of nearby cards as a function of the length of the list the  *)
(* backend returns.  V2 and V5 ask for a count in their prompt and render   *)
(* what comes back; V6 renders the first entries of result.nearbyLandmarks. *)
(***************************************************************************)
MaxReturned == 14   \* entries of the list the backend returns

MaxCount_V2 == 10
MaxCount_V5 == 12
MaxCount_V6 == 12

ReturnedLists == {[i \in 1..n |-> <<"a">>] : n \in 0..MaxReturned}

renderNearby_V6 ==
    /\ last = NoLast
    /\ cards' = SubSeq(result.nearby, 1,
                       IF Len(result.nearby) > MaxCount_V6 THEN MaxCount_V6
                       ELSE Len(result.nearby))
    /\ last' = [op |-> "render", variant |-> "V6"]
    /\ UNCHANGED <<image, isScanning, loading, podcastLoading, result,
                   podcastScript, error, nearbyLoading, allDiscoveredLandmarks,
                   searchText, readingSection, srcObject, camPending, orphans,
                   net, reqSeq, superseded, engine, synthQueue, synthEvents,
                   reads, selectedLang>>

\* a result is shown and the returned list is where the variant keeps it
Init_Cap ==
    /\ image = null
    /\ isScanning = FALSE
    /\ loading = FALSE
    /\ podcastLoading = FALSE
    /\ allDiscoveredLandmarks \in ReturnedLists
    /\ result \in {[title |-> t, uncertain |-> FALSE, message |-> "",
                     nearby |-> allDiscoveredLandmarks] : t \in Titles}
    /\ podcastScript = NoScript
    /\ error = null
    /\ nearbyLoading = FALSE
    /\ searchText = <<>>
    /\ readingSection = null
    /\ srcObject = "none"
    /\ camPending = 0
    /\ orphans = 0
    /\ net = {}
    /\ reqSeq = 0
    /\ last = NoLast
    /\ superseded = {}
    /\ engine = "w3c"
    /\ cards = <<>>
    /\ synthQueue = <<>>
    /\ synthEvents = <<>>
    /\ reads = <<>>
    /\ selectedLang = "ar"

Next_Cap ==
    \/ renderNearby_V2
    \/ renderNearby_V5
    \/ renderNearby_V6

Spec_Cap == Init_Cap /\ [][Next_Cap]_vars

(***************************************************************************)
(* C32: the nearby list presented never has more entries than the          *)
(* variant's maximum count, whatever the length of the returned list.      *)
(***************************************************************************)
C32_NearbyListCapped ==
    last.op = "render" =>
        Len(cards) <= (CASE last.variant = "V2" -> MaxCount_V2
                         [] last.variant = "V5" -> MaxCount_V5
                         [] last.variant = "V6" -> MaxCount_V6)

====
